---- MODULE Spec2Model ----
(***************************************************************************)
(* A model of the cucumber runner of src/src/lib.rs: the step registry     *)
(* (Steps / RegexSteps), step resolution (test_type), the capture of one   *)
(* handler invocation (run_test), the scenario loop (run_scenario), the    *)
(* feature loop (run) and the counters of DefaultOutput.                   *)
(*                                                                         *)
(* Option<T> is a sequence of length at most one: <<>> is None, <<v>> is   *)
(* Some(v).  A HashMap that is only looked up is a function with a finite  *)
(* domain; a HashMap that is iterated is the sequence of its entries in    *)
(* the iteration order of that map instance, an order the program does not *)
(* choose.                                                                 *)
(***************************************************************************)
EXTENDS Integers, Sequences, FiniteSets, TLC

(* ---------------------------------------------------------------- bounds *)
(* The most items steps! registers, and the most calls a run makes on its  *)
(* OutputVisitor (a feature or a scenario is begun only if the calls it    *)
(* can make, and those that end the run, still fit). *)
MaxRegs == 3
MaxCalls == 15
(* The most step groups cucumber! merges. *)
MaxGroups == 2

None == <<>>
Some(v) == <<v>>

StepTypes == {"Given", "When", "Then"}

(* ------------------------------------------------------------- registry *)
(* Steps::new: six empty maps. *)
Steps_new ==
    [given |-> <<>>, when |-> <<>>, then |-> <<>>,
     regex |-> [given |-> <<>>, when |-> <<>>, then |-> <<>>]]

test_bag_for(tests, ty) ==
    CASE ty = "Given" -> tests.given
      [] ty = "When"  -> tests.when
      [] ty = "Then"  -> tests.then

regex_bag_for(tests, ty) ==
    CASE ty = "Given" -> tests.regex.given
      [] ty = "When"  -> tests.regex.when
      [] ty = "Then"  -> tests.regex.then

(* HashMap<&'static str, TestCase<T>>::insert: a later insert of the same  *)
(* key replaces the value.  A TestCase is named by the number of the       *)
(* registration that created it.                                           *)
map_insert(bag, name, test) ==
    [k \in (DOMAIN bag) \cup {name} |-> IF k = name THEN test ELSE bag[k]]

(* HashMap<HashableRegex, RegexTestCase<T>>::insert.  Keys are equal when  *)
(* their source text is equal (HashableRegex::eq), and then the value is   *)
(* replaced where the entry stands; a new key lands at place `slot` of the *)
(* iteration order.                                                        *)
regex_map_insert(bag, re, test, slot) ==
    IF \E i \in 1..Len(bag) : bag[i].key = re
    THEN [i \in 1..Len(bag) |->
            IF bag[i].key = re THEN [key |-> re, value |-> test] ELSE bag[i]]
    ELSE SubSeq(bag, 1, slot - 1) \o <<[key |-> re, value |-> test]>>
            \o SubSeq(bag, slot, Len(bag))

(* steps!: `$tests.$ty.insert($name, TestCase::new($body))`. *)
insert_step(tests, ty, name, test) ==
    CASE ty = "Given" -> [tests EXCEPT !.given = map_insert(@, name, test)]
      [] ty = "When"  -> [tests EXCEPT !.when  = map_insert(@, name, test)]
      [] ty = "Then"  -> [tests EXCEPT !.then  = map_insert(@, name, test)]

(* steps!: `$tests.regex.$ty.insert(HashableRegex(Regex::new($name)), ..)`. *)
insert_regex_step(tests, ty, re, test, slot) ==
    CASE ty = "Given" ->
           [tests EXCEPT !.regex.given = regex_map_insert(@, re, test, slot)]
      [] ty = "When" ->
           [tests EXCEPT !.regex.when = regex_map_insert(@, re, test, slot)]
      [] ty = "Then" ->
           [tests EXCEPT !.regex.then = regex_map_insert(@, re, test, slot)]

(* cucumber!: `combined_steps.$ty.extend(step_group.$ty)`, which inserts    *)
(* every entry of the group: a text the combined map already holds gets    *)
(* the value of the group. *)
map_extend_keeps_first(bag, other) ==
    [k \in (DOMAIN bag) \cup (DOMAIN other) |->
       IF k \in DOMAIN bag THEN bag[k] ELSE other[k]]

map_extend(bag, other) ==
    [k \in (DOMAIN bag) \cup (DOMAIN other) |->
       IF k \in DOMAIN other THEN other[k] ELSE bag[k]]

(* cucumber!: `combined_steps.regex.$ty.extend(step_group.regex.$ty)`: the *)
(* entries of the group, from the i-th on, are inserted in the iteration   *)
(* order of the group; the result is one of the maps the places of the new *)
(* keys can give. *)
RECURSIVE regex_map_extend(_, _, _)
regex_map_extend(bag, other, i) ==
    IF i > Len(other) THEN {bag}
    ELSE UNION {regex_map_extend(
                  regex_map_insert(bag, other[i].key, other[i].value, slot),
                  other, i + 1) : slot \in 1..(Len(bag) + 1)}

(* cucumber!: one turn of `for step_group in step_groups.into_iter()`. *)
merge_step_group(combined, step_group) ==
    {[given |-> map_extend(combined.given, step_group.given),
      when  |-> map_extend(combined.when, step_group.when),
      then  |-> map_extend(combined.then, step_group.then),
      regex |-> [given |-> g, when |-> w, then |-> t]] :
        g \in regex_map_extend(combined.regex.given, step_group.regex.given, 1),
        w \in regex_map_extend(combined.regex.when, step_group.regex.when, 1),
        t \in regex_map_extend(combined.regex.then, step_group.regex.then, 1)}

(* ------------------------------------------------------- regex matching *)
(* The step texts and the patterns of the model.  For each pattern, the    *)
(* texts it matches and, for each, what Regex::captures yields: one        *)
(* Option<&str> per group, group 0 being the whole match.  The optional    *)
(* group of "^a(nother)? thing$" does not take part in a match of          *)
(* "a thing".                                                              *)
Texts == {"a thing", "another thing", "test 1 regex"}

MatchTable ==
    [re \in {"^test (.*) regex$", "^(.*) thing$", "^a(nother)? thing$"} |->
       CASE re = "^test (.*) regex$" ->
              [v \in {"test 1 regex"} |-> <<Some("test 1 regex"), Some("1")>>]
         [] re = "^(.*) thing$" ->
              [v \in {"a thing", "another thing"} |->
                 IF v = "a thing" THEN <<Some("a thing"), Some("a")>>
                 ELSE <<Some("another thing"), Some("another")>>]
         [] re = "^a(nother)? thing$" ->
              [v \in {"a thing", "another thing"} |->
                 IF v = "a thing" THEN <<Some("a thing"), None>>
                 ELSE <<Some("another thing"), Some("nother")>>]]

Patterns == DOMAIN MatchTable

is_match(re, value) == value \in DOMAIN MatchTable[re]

captures(re, value) == MatchTable[re][value]

(* --------------------------------------------------------- test_type *)
(* Iterator::find over regex_bag.iter(): the first entry, in the iteration *)
(* order of the map, whose regex matches; 0 when there is none.            *)
find_match(regex_bag, value) ==
    LET hits == {i \in 1..Len(regex_bag) : is_match(regex_bag[i].key, value)}
    IN  IF hits = {} THEN 0
        ELSE CHOOSE i \in hits : \A j \in hits : i <= j

(* Steps::test_type.  The result is None, Some(Normal(test)) or            *)
(* Some(Regex(test, matches)); `x.unwrap()` on a group that took no part   *)
(* in the match panics, which the model returns as the variant "Panic".    *)
test_type_patterns_first(tests, step) ==
    LET regex_bag == regex_bag_for(tests, step.ty)
        result == find_match(regex_bag, step.value)
        test_bag == test_bag_for(tests, step.ty)
    IN  IF result # 0
        THEN Some([variant |-> "Regex", test |-> regex_bag[result].value,
                   matches |-> <<>>])
        ELSE IF step.value \in DOMAIN test_bag
        THEN Some([variant |-> "Normal", test |-> test_bag[step.value],
                   matches |-> <<>>])
        ELSE None

test_type(tests, step) ==
    LET test_bag == test_bag_for(tests, step.ty) IN
    IF step.value \in DOMAIN test_bag
    THEN Some([variant |-> "Normal", test |-> test_bag[step.value],
               matches |-> <<>>])
    ELSE LET regex_bag == regex_bag_for(tests, step.ty)
             result == find_match(regex_bag, step.value)
         IN  IF result = 0 THEN None
             ELSE LET caps == captures(regex_bag[result].key, step.value) IN
                  IF \E g \in 1..Len(caps) : caps[g] = None
                  THEN Some([variant |-> "Panic", test |-> 0, matches |-> <<>>])
                  ELSE Some([variant |-> "Regex",
                             test |-> regex_bag[result].value,
                             matches |-> [g \in 1..Len(caps) |-> caps[g][1]]])

(* ----------------------------------------------------------- run_test *)
(* TestResult.  Fail(message, location) carries both; the other variants   *)
(* carry neither.  A message is the sequence of the pieces it is made of.  *)
Pass == [tag |-> "Pass", msg |-> <<>>, loc |-> ""]
Skipped == [tag |-> "Skipped", msg |-> <<>>, loc |-> ""]
Unimplemented == [tag |-> "Unimplemented", msg |-> <<>>, loc |-> ""]
MutexPoisoned == [tag |-> "MutexPoisoned", msg |-> <<>>, loc |-> ""]
Fail(m, l) == [tag |-> "Fail", msg |-> m, loc |-> l]

(* What one call of a handler does: whether it panics, the panic payload   *)
(* (a Box<dyn Any>: its type and, for a string, its text), what it printed *)
(* before that, whether the panic calls the panic hook (`panic!` does,     *)
(* `std::panic::resume_unwind` does not) and, when it does,                *)
(* PanicInfo::location() already formatted as "file:line:column".          *)
Payloads ==
    {[ty |-> "&str",   s |-> "not yet implemented"],
     [ty |-> "String", s |-> "not yet implemented"],
     [ty |-> "&str",   s |-> "oh shit"],
     [ty |-> "String", s |-> "oh shit"],
     [ty |-> "i32",    s |-> "not yet implemented"]}

Returns == [panics |-> FALSE, payload |-> [ty |-> "&str", s |-> ""],
            stdout |-> <<>>, hook |-> FALSE, location |-> None]

Behaviours ==
    {[Returns EXCEPT !.stdout = o] : o \in {<<>>, <<"printed">>}}
    \cup [panics : {TRUE}, payload : Payloads,
          stdout : {<<>>, <<"printed">>}, hook : {TRUE},
          location : {None, Some("src/lib.rs:750:13")}]
    \cup [panics : {TRUE}, payload : {[ty |-> "String", s |-> "oh shit"]},
          stdout : {<<>>}, hook : {FALSE}, location : {None}]

(* The panic hook installed by run_test: `*state = info.location().map(..)` *)
panic_hook(state, location) == location

(* capture_io: the captured output and the Result of catch_unwind. *)
capture_io(beh) ==
    [stdout |-> beh.stdout,
     result |-> IF beh.panics THEN [ok |-> FALSE, any |-> beh.payload]
                ELSE [ok |-> TRUE, any |-> beh.payload]]

(* any.downcast_ref::<String>(), then ::<&str>(), else "". *)
downcast_str(any) ==
    IF any.ty = "String" THEN any.s
    ELSE IF any.ty = "&str" THEN any.s
    ELSE ""

(* The match on captured_io.result of run_test. *)
classify_output_first(captured_io, state) ==
    IF captured_io.result.ok THEN Pass
    ELSE LET loc == IF state # None THEN state[1] ELSE "unknown"
             s == downcast_str(captured_io.result.any)
         IN  IF Len(captured_io.stdout) > 0
             THEN Fail(captured_io.stdout, loc)
             ELSE IF s = "not yet implemented" THEN Unimplemented
             ELSE Fail(<<"Panicked with: ", s>>, loc)

classify_payload_first(captured_io, state) ==
    IF captured_io.result.ok THEN Pass
    ELSE LET loc == IF state # None THEN state[1] ELSE "unknown"
             s == downcast_str(captured_io.result.any)
         IN  IF s = "not yet implemented" THEN Unimplemented
             ELSE LET panic_str ==
                        IF s # ""
                        THEN <<"Panicked with: ", s>>
                        ELSE captured_io.stdout
                  IN  Fail(panic_str, loc)

classify(captured_io, state) ==
    IF captured_io.result.ok THEN Pass
    ELSE LET loc == IF state # None THEN state[1] ELSE "unknown"
             s == downcast_str(captured_io.result.any)
         IN  IF s = "not yet implemented" THEN Unimplemented
             ELSE LET panic_str ==
                        IF Len(captured_io.stdout) > 0
                        THEN captured_io.stdout
                        ELSE <<"Panicked with: ", s>>
                  IN  Fail(panic_str, loc)

(* Steps::run_test: the result and the last_panic cell afterwards. *)
run_test(beh, last_panic) ==
    LET state == IF beh.panics /\ beh.hook
                 THEN panic_hook(last_panic, beh.location)
                 ELSE last_panic
    IN  [result |-> classify(capture_io(beh), state), last_panic |-> state]

(* The process-wide print sink, panic-output sink and panic hook.          *)
(* capture_io: `io::set_print(Some(sink))` and `io::set_panic(Some(sink))` *)
(* return the sinks they replace, which are set again after catch_unwind.  *)
capture_io_sinks(io) ==
    LET old_io == <<io.print, io.panic>>
        during == [io EXCEPT !.print = Some("Sink"), !.panic = Some("Sink")]
    IN  [during EXCEPT !.print = old_io[1], !.panic = old_io[2]]

(* run_test: `panic::set_hook(..)`, capture_io, `panic::take_hook()`,      *)
(* which unregisters the hook and leaves the default hook registered.      *)
run_test_io(io) ==
    LET hooked == [io EXCEPT !.hook = "run_test"]
        back == capture_io_sinks(hooked)
    IN  [back EXCEPT !.hook = "default"]

(* ---------------------------------------------------------------- World *)
(* tests::World and its Default. *)
Worlds == [thing : BOOLEAN]

World_default == [thing |-> FALSE]

(* run_scenario: `capture_io(|| T::default())` and the match on its        *)
(* result: the World, or the panic raised again. *)
new_world_panic_swallowed(default_ok) ==
    [world |-> Some(World_default), unwinds |-> FALSE]

new_world(default_ok) ==
    IF default_ok THEN [world |-> Some(World_default), unwinds |-> FALSE]
    ELSE [world |-> None, unwinds |-> TRUE]

(* run_test_inner: the World the handler is called on, the `&mut T` that   *)
(* run_scenario hands to run_test. *)
run_test_inner_fresh_world(world) == World_default

run_test_inner(world) == world

(* -------------------------------------------------------- DefaultOutput *)
(* The counters are u32.  `+= 1` stays far below 2^32 in every run of the  *)
(* model; a subtraction below zero has no u32 value and yields None. *)
u32_inc(x) == x + 1

u32_sub(a, b) == IF a # None /\ a[1] >= b THEN Some(a[1] - b) ELSE None

DefaultOutput_default ==
    [scenario_count |-> 0, scenario_skipped_count |-> 0,
     scenario_fail_count |-> 0, step_count |-> 0, skipped_count |-> 0,
     fail_count |-> 0, passed_count |-> <<>>]

visit_start(o) == o

visit_feature(o) == o

visit_feature_end(o) == o

visit_scenario(o) == [o EXCEPT !.scenario_count = u32_inc(@)]

visit_scenario_skipped(o) == [o EXCEPT !.scenario_skipped_count = u32_inc(@)]

visit_scenario_end(o) == o

visit_step(o) == [o EXCEPT !.step_count = u32_inc(@)]

visit_step_result_unimplemented_uncounted(o, result) ==
    CASE result.tag = "Pass" -> o
      [] result.tag = "Fail" ->
           [o EXCEPT !.fail_count = u32_inc(@),
                     !.scenario_fail_count = u32_inc(@)]
      [] result.tag = "MutexPoisoned" -> [o EXCEPT !.fail_count = u32_inc(@)]
      [] result.tag = "Skipped" -> [o EXCEPT !.skipped_count = u32_inc(@)]
      [] result.tag = "Unimplemented" -> o

visit_step_result(o, result) ==
    CASE result.tag = "Pass" -> o
      [] result.tag = "Fail" ->
           [o EXCEPT !.fail_count = u32_inc(@),
                     !.scenario_fail_count = u32_inc(@)]
      [] result.tag = "MutexPoisoned" -> [o EXCEPT !.fail_count = u32_inc(@)]
      [] result.tag = "Skipped" -> [o EXCEPT !.skipped_count = u32_inc(@)]
      [] result.tag = "Unimplemented" ->
           [o EXCEPT !.skipped_count = u32_inc(@)]

(* `let passed_count = self.step_count - self.skipped_count -               *)
(* self.fail_count`, in u32: Some(difference), or None when a subtraction  *)
(* goes below zero (a panic or a wrapped value, by the build). *)
visit_finish(o) ==
    LET d == u32_sub(Some(o.step_count), o.skipped_count)
    IN  [o EXCEPT !.passed_count = <<u32_sub(d, o.fail_count)>>]

(* ------------------------------------------------------- run_scenario *)
(* The step list of run_scenario: the steps of the background, when the    *)
(* feature has one, then the steps of the scenario.                        *)
step_list_scenario_first(feature, scenario) ==
    scenario.steps \o
      (IF feature.background # None THEN feature.background[1].steps ELSE <<>>)

step_list(feature, scenario) ==
    (IF feature.background # None THEN feature.background[1].steps ELSE <<>>)
        \o scenario.steps

(* One turn of `for step in steps.iter()` after visit_step: the result     *)
(* handed to visit_step_result, whether the handler was called, whether    *)
(* visit_scenario_skipped is called, and is_skipping and last_panic        *)
(* afterwards.  `tt` is what test_type returned and `beh` is what the      *)
(* handler does if it is called.                                           *)
loop_body_runs_while_skipping(tt, is_skipping, beh, last_panic) ==
    IF tt = None
    THEN [result |-> Unimplemented, called |-> FALSE,
          skipped |-> ~is_skipping, is_skipping |-> TRUE,
          last_panic |-> last_panic]
    ELSE LET r == run_test(beh, last_panic) IN
         [result |-> IF is_skipping THEN Skipped ELSE r.result,
          called |-> TRUE,
          skipped |-> ~is_skipping /\ r.result.tag # "Pass",
          is_skipping |-> is_skipping \/ r.result.tag # "Pass",
          last_panic |-> r.last_panic]

loop_body_skipped_per_step(tt, is_skipping, beh, last_panic) ==
    IF tt = None
    THEN [result |-> Unimplemented, called |-> FALSE,
          skipped |-> TRUE, is_skipping |-> TRUE,
          last_panic |-> last_panic]
    ELSE IF is_skipping
    THEN [result |-> Skipped, called |-> FALSE, skipped |-> FALSE,
          is_skipping |-> TRUE, last_panic |-> last_panic]
    ELSE LET r == run_test(beh, last_panic) IN
         [result |-> r.result, called |-> TRUE,
          skipped |-> r.result.tag # "Pass",
          is_skipping |-> r.result.tag # "Pass",
          last_panic |-> r.last_panic]

loop_body_fail_keeps_running(tt, is_skipping, beh, last_panic) ==
    IF tt = None
    THEN [result |-> Unimplemented, called |-> FALSE,
          skipped |-> ~is_skipping, is_skipping |-> TRUE,
          last_panic |-> last_panic]
    ELSE IF is_skipping
    THEN [result |-> Skipped, called |-> FALSE, skipped |-> FALSE,
          is_skipping |-> TRUE, last_panic |-> last_panic]
    ELSE LET r == run_test(beh, last_panic) IN
         [result |-> r.result, called |-> TRUE,
          skipped |-> r.result.tag = "Unimplemented",
          is_skipping |-> r.result.tag = "Unimplemented",
          last_panic |-> r.last_panic]

loop_body_skips_after_earlier_panic(tt, is_skipping, beh, last_panic) ==
    IF tt = None
    THEN [result |-> Unimplemented, called |-> FALSE,
          skipped |-> ~is_skipping, is_skipping |-> TRUE,
          last_panic |-> last_panic]
    ELSE IF is_skipping \/ last_panic # None
    THEN [result |-> Skipped, called |-> FALSE, skipped |-> FALSE,
          is_skipping |-> TRUE, last_panic |-> last_panic]
    ELSE LET r == run_test(beh, last_panic) IN
         [result |-> r.result, called |-> TRUE,
          skipped |-> r.result.tag # "Pass",
          is_skipping |-> r.result.tag # "Pass",
          last_panic |-> r.last_panic]

loop_body(tt, is_skipping, beh, last_panic) ==
    IF tt = None
    THEN [result |-> Unimplemented, called |-> FALSE,
          skipped |-> ~is_skipping, is_skipping |-> TRUE,
          last_panic |-> last_panic]
    ELSE IF is_skipping
    THEN [result |-> Skipped, called |-> FALSE, skipped |-> FALSE,
          is_skipping |-> TRUE, last_panic |-> last_panic]
    ELSE LET r == run_test(beh, last_panic) IN
         [result |-> r.result, called |-> TRUE,
          skipped |-> r.result.tag # "Pass",
          is_skipping |-> r.result.tag # "Pass",
          last_panic |-> r.last_panic]

(* What the handler of this turn may do: anything when it is called; when  *)
(* it is not called there is nothing to choose. *)
HandlerBehaviours(tt, is_skipping) ==
    IF loop_body(tt, is_skipping, Returns, None).called THEN Behaviours
    ELSE {Returns}

(* ----------------------------------------------------------- the inputs *)
(* The registrations of the module tests1 of lib.rs, in source order. *)
Registrations1 ==
    << [ty |-> "When",  regex |-> TRUE,  name |-> "^test (.*) regex$"],
       [ty |-> "Given", regex |-> FALSE, name |-> "a thing"],
       [ty |-> "When",  regex |-> FALSE, name |-> "another thing"],
       [ty |-> "When",  regex |-> FALSE, name |-> "something goes right"],
       [ty |-> "Then",  regex |-> FALSE, name |-> "another thing"],
       [ty |-> "When",  regex |-> FALSE, name |-> "nothing"] >>

(* steps!(@gather_steps, ..): the items inserted one after the other, the  *)
(* i-th item creating test case i. *)
RECURSIVE gather_steps(_, _, _)
gather_steps(tests, items, i) ==
    IF i > Len(items) THEN tests
    ELSE gather_steps(
           IF items[i].regex
           THEN insert_regex_step(tests, items[i].ty, items[i].name, i,
                    Len(regex_bag_for(tests, items[i].ty)) + 1)
           ELSE insert_step(tests, items[i].ty, items[i].name, i),
           items, i + 1)

(* The steps a feature file of the model is written with: one that has an  *)
(* exact definition in tests1, one that only the pattern of tests1         *)
(* matches, and one that nothing matches.                                  *)
RunSteps ==
    {[ty |-> "Given", value |-> "a thing"],
     [ty |-> "When",  value |-> "test 1 regex"],
     [ty |-> "Then",  value |-> "a thing"]}

(* The calls of one scenario with n steps: visit_scenario, two per step,   *)
(* visit_scenario_skipped at most once and visit_scenario_end. *)
ScenarioCalls(n) == 2 * n + 3

(* The longest step list a scenario can have when `room` calls are left    *)
(* for it; -1 when not even a scenario without steps fits. *)
Fits(room) == IF room < 3 THEN 0 - 1 ELSE (room - 3) \div 2

StepSeqs(n) == UNION {[1..k -> RunSteps] : k \in 0..n}

NoFeature == [background |-> None]

NoScenario == [steps |-> <<>>]

(* ------------------------------------------------------------ the state *)
VARIABLES
    pc,           \* where the program stands
    tests,        \* the Steps registry
    regs,         \* the registrations made, in order (history)
    query,        \* the step last given to test_type on its own
    resolved,     \* and what test_type returned for it
    last_panic,   \* the Arc<Mutex<Option<String>>> of run
    output,       \* the DefaultOutput
    calls,        \* the calls made on the OutputVisitor, in order (history)
    shape,        \* per feature begun, the length of the step list of each
                  \* scenario begun (history)
    feature,      \* the Feature being run
    sidx,         \* the place of the scenario being run in feature.scenarios
    scenario,     \* the Scenario being run
    steps,        \* run_scenario: the step list
    idx,          \* run_scenario: the place of the next step in steps
    is_skipping,  \* run_scenario: the flag
    results,      \* the variants of the results reported in this scenario
                  \* (history)
    last_result,  \* the result last handed to visit_step_result, with what
                  \* the handler did and the World it was handed if it was
                  \* called (history)
    visited,      \* the steps handed to visit_step in this scenario (history)
    pass_results, \* how many results of the run were Pass (history)
    called,       \* the places in steps whose handler was called (history)
    combined_steps, \* cucumber!: the registry the step groups are merged into
    merged,       \* cucumber!: how many step groups are merged
    io,           \* the print sink, the panic-output sink and the panic hook
                  \* of the process
    raised,       \* the panic raised outside a handler, if any (history)
    world         \* run_scenario: the World

vars == <<pc, tests, regs, query, resolved, last_panic, output, calls, shape,
          feature, sidx, scenario, steps, idx, is_skipping, results, last_result,
          visited, pass_results, called, combined_steps, merged, io, raised,
          world>>

regVars == <<tests, regs, query, resolved, combined_steps, merged>>
scenVars == <<scenario, steps, idx, is_skipping, results, last_result,
              visited, called, world>>

Ev(name, f, s, i) == [ev |-> name, f |-> f, s |-> s, i |-> i]

(* The calls of one turn of the loop of run_scenario on step i of scenario *)
(* s of feature f: visit_step, visit_step_result and, when the turn sets   *)
(* is_skipping, visit_scenario_skipped. *)
step_calls_result_first(f, s, i, skipped) ==
    << Ev("visit_step_result", f, s, i), Ev("visit_step", f, s, i) >>
    \o (IF skipped THEN <<Ev("visit_scenario_skipped", f, s, 0)>> ELSE <<>>)

step_calls(f, s, i, skipped) ==
    << Ev("visit_step", f, s, i), Ev("visit_step_result", f, s, i) >>
    \o (IF skipped THEN <<Ev("visit_scenario_skipped", f, s, 0)>> ELSE <<>>)

(* ------------------------------------------------------------ Steps::run *)
InitRun ==
    /\ pc = "run"
    /\ tests = gather_steps(Steps_new, Registrations1, 1)
    /\ regs = Registrations1
    /\ query = None
    /\ resolved = None
    /\ last_panic = None
    /\ output = DefaultOutput_default
    /\ calls = <<>>
    /\ shape = <<>>
    /\ feature = NoFeature
    /\ sidx = 0
    /\ scenario = NoScenario
    /\ steps = <<>>
    /\ idx = 0
    /\ is_skipping = FALSE
    /\ results = <<>>
    /\ last_result = None
    /\ visited = <<>>
    /\ pass_results = 0
    /\ called = <<>>
    /\ combined_steps = Steps_new
    /\ merged = 0
    /\ \E hook \in {"default", "before"} :
         io = [print |-> None, panic |-> None, hook |-> hook]
    /\ raised = None
    /\ world = None

(* run, up to the loop: visit_start, then read_dir, whose failure panics   *)
(* (`expect`), then the last_panic cell. *)
RunStart ==
    /\ pc = "run"
    /\ output' = visit_start(output)
    /\ calls' = Append(calls, Ev("visit_start", 0, 0, 0))
    /\ \E read_dir_ok \in BOOLEAN :
         /\ pc' = IF read_dir_ok THEN "entries" ELSE "panicked"
         /\ raised' = IF read_dir_ok THEN None
                      ELSE Some("feature path to exist")
    /\ last_panic' = None
    /\ UNCHANGED <<regVars, pass_results, shape, feature, sidx, scenVars, io>>

(* `for entry in feature_path`: the next entry is read and parsed, and     *)
(* visit_feature is called.  The feature is read-only from here on; the    *)
(* model draws its background now and each of its scenarios when           *)
(* `feature.scenarios.iter()` yields it. *)
NextEntry ==
    /\ pc = "entries"
    /\ Len(calls) + 3 <= MaxCalls
    /\ \E bg \in {None} \cup
                 {Some([steps |-> b]) :
                    b \in StepSeqs(Fits(MaxCalls - Len(calls) - 3))} :
         feature' = [background |-> bg]
    /\ output' = visit_feature(output)
    /\ calls' = Append(calls, Ev("visit_feature", Len(shape) + 1, 0, 0))
    /\ shape' = Append(shape, <<>>)
    /\ sidx' = 0
    /\ pc' = "scenarios"
    /\ UNCHANGED <<regVars, pass_results, last_panic, scenVars, io, raised>>

(* The next entry cannot be read: `entry.unwrap()`, `File::open(..).expect` *)
(* or `read_to_string(..).unwrap()` panics. *)
EntryError ==
    /\ pc = "entries"
    /\ pc' = "panicked"
    /\ raised' = Some("entry")
    /\ UNCHANGED <<regVars, pass_results, last_panic, output, calls, shape,
                   feature, sidx, scenVars, io>>

(* The directory has no further entry: visit_finish. *)
Finish ==
    /\ pc = "entries"
    /\ output' = visit_finish(output)
    /\ calls' = Append(calls, Ev("visit_finish", 0, 0, 0))
    /\ pc' = "done"
    /\ UNCHANGED <<regVars, pass_results, last_panic, shape, feature, sidx,
                   scenVars, io, raised>>

(* run_scenario, up to the loop: visit_scenario, T::default() under        *)
(* capture_io (a panic of it is raised again), the step list. *)
BeginScenario ==
    /\ pc = "scenarios"
    /\ \E sc \in [steps : StepSeqs(Fits(MaxCalls - Len(calls) - 2))] :
         /\ Len(calls) + ScenarioCalls(Len(step_list(feature, sc))) + 2
               <= MaxCalls
         /\ scenario' = sc
         /\ \E default_ok \in BOOLEAN :
              LET w == new_world(default_ok) IN
              /\ world' = w.world
              /\ raised' = IF default_ok THEN None ELSE Some("T::default()")
              /\ IF ~w.unwinds
                 THEN /\ steps' = step_list(feature, sc)
                      /\ shape' = [shape EXCEPT
                                     ![Len(shape)] = Append(@, Len(steps'))]
                      /\ pc' = "steps"
                 ELSE /\ steps' = <<>>
                      /\ shape' = shape
                      /\ pc' = "panicked"
    /\ sidx' = sidx + 1
    /\ output' = visit_scenario(output)
    /\ calls' = Append(calls, Ev("visit_scenario", Len(shape), sidx + 1, 0))
    /\ idx' = 1
    /\ is_skipping' = FALSE
    /\ results' = <<>>
    /\ last_result' = None
    /\ visited' = <<>>
    /\ called' = <<>>
    /\ io' = capture_io_sinks(io)
    /\ UNCHANGED <<regVars, pass_results, last_panic, feature>>

(* One turn of `for step in steps.iter()`.  A handler that returns leaves  *)
(* any World behind; the handlers of the model that panic do so before     *)
(* they write to it. *)
RunStep ==
    /\ pc = "steps"
    /\ idx <= Len(steps)
    /\ visited' = Append(visited, steps[idx])
    /\ LET tt == test_type(tests, steps[idx]) IN
       IF tt # None /\ tt[1].variant = "Panic"
       THEN /\ output' = visit_step(output)
            /\ calls' = Append(calls, Ev("visit_step", Len(shape), sidx, idx))
            /\ pc' = "panicked"
            /\ raised' = Some("Option::unwrap() on a None value")
            /\ UNCHANGED <<last_panic, idx, is_skipping, results, last_result,
                           called, pass_results, world, io>>
       ELSE \E beh \in HandlerBehaviours(tt, is_skipping) :
            LET b == loop_body(tt, is_skipping, beh, last_panic) IN
            \E w \in (IF b.called /\ ~beh.panics THEN Worlds
                      ELSE {World_default}) :
            /\ output' =
                 LET o == visit_step_result(visit_step(output), b.result)
                 IN  IF b.skipped THEN visit_scenario_skipped(o) ELSE o
            /\ calls' = calls \o step_calls(Len(shape), sidx, idx, b.skipped)
            /\ results' = Append(results, b.result.tag)
            /\ last_result' =
                 Some([result |-> b.result,
                       beh |-> IF b.called THEN Some(beh) ELSE None,
                       world |-> IF b.called
                                 THEN Some(run_test_inner(world[1])) ELSE None])
            /\ world' = IF b.called /\ ~beh.panics THEN Some(w) ELSE world
            /\ io' = IF b.called THEN run_test_io(io) ELSE io
            /\ raised' = raised
            /\ pass_results' =
                 IF b.result.tag = "Pass" THEN pass_results + 1
                 ELSE pass_results
            /\ called' = IF b.called THEN Append(called, idx) ELSE called
            /\ is_skipping' = b.is_skipping
            /\ last_panic' = b.last_panic
            /\ idx' = idx + 1
            /\ pc' = "steps"
    /\ UNCHANGED <<regVars, shape, feature, sidx, scenario, steps>>

(* The loop is over: visit_scenario_end, and run_scenario returns. *)
EndScenario ==
    /\ pc = "steps"
    /\ idx > Len(steps)
    /\ output' = visit_scenario_end(output)
    /\ calls' = Append(calls, Ev("visit_scenario_end", Len(shape), sidx, 0))
    /\ pc' = "scenarios"
    /\ scenario' = NoScenario
    /\ steps' = <<>>
    /\ idx' = 0
    /\ is_skipping' = FALSE
    /\ results' = <<>>
    /\ last_result' = None
    /\ visited' = <<>>
    /\ called' = <<>>
    /\ world' = None
    /\ UNCHANGED <<regVars, pass_results, last_panic, shape, feature, sidx, io,
                   raised>>

(* The scenarios of the feature are over: visit_feature_end. *)
EndFeature ==
    /\ pc = "scenarios"
    /\ output' = visit_feature_end(output)
    /\ calls' = Append(calls, Ev("visit_feature_end", Len(shape), 0, 0))
    /\ pc' = "entries"
    /\ UNCHANGED <<regVars, pass_results, last_panic, shape, feature, sidx,
                   scenVars, io, raised>>

Next ==
    \/ RunStart
    \/ NextEntry
    \/ EntryError
    \/ Finish
    \/ BeginScenario
    \/ RunStep
    \/ EndScenario
    \/ EndFeature

Spec == InitRun /\ [][Next]_vars

(* ------------------------------------------- registration and resolution *)
(* A registry built by steps! from any registrations, and test_type on it. *)
InitResolve ==
    /\ pc = "register"
    /\ tests = Steps_new
    /\ regs = <<>>
    /\ query = None
    /\ resolved = None
    /\ last_panic = None
    /\ output = DefaultOutput_default
    /\ calls = <<>>
    /\ shape = <<>>
    /\ feature = NoFeature
    /\ sidx = 0
    /\ scenario = NoScenario
    /\ steps = <<>>
    /\ idx = 0
    /\ is_skipping = FALSE
    /\ results = <<>>
    /\ last_result = None
    /\ visited = <<>>
    /\ pass_results = 0
    /\ called = <<>>
    /\ combined_steps = Steps_new
    /\ merged = 0
    /\ io = [print |-> None, panic |-> None, hook |-> "default"]
    /\ raised = None
    /\ world = None

runVars == <<pass_results, last_panic, output, calls, shape, feature, sidx,
             scenVars, io, raised>>

(* One item of steps!: `$ty $name $body` or `$ty regex $name $body`. *)
Register ==
    /\ pc = "register"
    /\ Len(regs) < MaxRegs
    /\ \E ty \in StepTypes, regex \in BOOLEAN :
         \E name \in (IF regex THEN Patterns ELSE Texts) :
           /\ regs' = Append(regs, [ty |-> ty, regex |-> regex, name |-> name])
           /\ IF regex
              THEN \E slot \in 1..(Len(regex_bag_for(tests, ty)) + 1) :
                     tests' = insert_regex_step(tests, ty, name,
                                                Len(regs) + 1, slot)
              ELSE tests' = insert_step(tests, ty, name, Len(regs) + 1)
    /\ query' = None
    /\ resolved' = None
    /\ UNCHANGED <<pc, combined_steps, merged, runVars>>

(* test_type on a step. *)
Resolve ==
    /\ pc = "register"
    /\ \E step \in [ty : StepTypes, value : Texts] :
         /\ query' = Some(step)
         /\ resolved' = test_type(tests, step)
    /\ UNCHANGED <<pc, tests, regs, combined_steps, merged, runVars>>

NextResolve ==
    \/ Register
    \/ Resolve

SpecResolve == InitResolve /\ [][NextResolve]_vars

(* ------------------------------------------------------------- cucumber! *)
(* The main of cucumber!, up to `tests.run`: the step groups and their     *)
(* merge.  A step group is built by its steps function right before the    *)
(* turn of the loop that merges it, which changes nothing: the functions   *)
(* share no state. *)
InitMerge ==
    /\ pc = "main"
    /\ tests = Steps_new
    /\ regs = <<>>
    /\ query = None
    /\ resolved = None
    /\ last_panic = None
    /\ output = DefaultOutput_default
    /\ calls = <<>>
    /\ shape = <<>>
    /\ feature = NoFeature
    /\ sidx = 0
    /\ scenario = NoScenario
    /\ steps = <<>>
    /\ idx = 0
    /\ is_skipping = FALSE
    /\ results = <<>>
    /\ last_result = None
    /\ visited = <<>>
    /\ pass_results = 0
    /\ called = <<>>
    /\ combined_steps = Steps_new
    /\ merged = 0
    /\ io = [print |-> None, panic |-> None, hook |-> "default"]
    /\ raised = None
    /\ world = None

(* The items the steps functions of the step groups are written with. *)
GroupItems ==
    [ty : {"Given", "When"}, regex : {FALSE}, name : {"another thing"}]
    \cup [ty : {"Given", "When"}, regex : {TRUE},
          name : {"^(.*) thing$", "^a(nother)? thing$"}]

(* One item of the steps! of the step group being built; `tests` is the    *)
(* Steps of that group. *)
StepGroupItem ==
    /\ pc = "main"
    /\ Len(regs) < MaxRegs
    /\ merged < MaxGroups
    /\ \E item \in GroupItems :
         /\ regs' = Append(regs, [ty |-> item.ty, regex |-> item.regex,
                                  name |-> item.name, group |-> merged + 1])
         /\ IF item.regex
            THEN \E slot \in 1..(Len(regex_bag_for(tests, item.ty)) + 1) :
                   tests' = insert_regex_step(tests, item.ty, item.name,
                                              Len(regs) + 1, slot)
            ELSE tests' = insert_step(tests, item.ty, item.name, Len(regs) + 1)
    /\ query' = None
    /\ resolved' = None
    /\ UNCHANGED <<pc, combined_steps, merged, runVars>>

(* One turn of `for step_group in step_groups.into_iter()`. *)
MergeGroup ==
    /\ pc = "main"
    /\ merged < MaxGroups
    /\ combined_steps' \in merge_step_group(combined_steps, tests)
    /\ tests' = Steps_new
    /\ merged' = merged + 1
    /\ query' = None
    /\ resolved' = None
    /\ UNCHANGED <<pc, regs, runVars>>

(* test_type on a step, with the groups merged so far as the registry. *)
ResolveCombined ==
    /\ pc = "main"
    /\ \E step \in [ty : StepTypes, value : Texts] :
         /\ query' = Some(step)
         /\ resolved' = test_type(combined_steps, step)
    /\ UNCHANGED <<pc, tests, regs, combined_steps, merged, runVars>>

NextMerge ==
    \/ StepGroupItem
    \/ MergeGroup
    \/ ResolveCombined

SpecMerge == InitMerge /\ [][NextMerge]_vars

(* ================================================================ claims *)
(* The loop of the current scenario has run all its steps. *)
LoopOver == pc = "steps" /\ idx > Len(steps)

(* The place of the first result of the scenario that is not Pass, or one  *)
(* past the results when there is none. *)
FirstNonPass ==
    IF \E i \in 1..Len(results) : results[i] # "Pass"
    THEN CHOOSE i \in 1..Len(results) :
           /\ results[i] # "Pass"
           /\ \A j \in 1..(i - 1) : results[j] = "Pass"
    ELSE Len(results) + 1

(* The calls made for the scenario being run. *)
ScenarioCallsMade ==
    SelectSeq(calls, LAMBDA e : e.f = Len(shape) /\ e.s = sidx)

CountEv(log, name) == Len(SelectSeq(log, LAMBDA e : e.ev = name))

(* C1: in a scenario, once a step's reported result is not Pass, the       *)
(* result reported for every later step is Skipped, whether or not that    *)
(* step resolves to a handler. *)
C1_LaterStepsSkipped ==
    pc = "steps" =>
      \A i \in 1..Len(results) : \A j \in (i + 1)..Len(results) :
        results[i] # "Pass" => results[j] = "Skipped"

(* C2: the handlers called in a scenario are exactly the resolved steps up *)
(* to and including the first step whose result is not Pass, each once and *)
(* in list order; none after it and none for an unresolved step. *)
C2_CalledExactly ==
    pc = "steps" =>
      LET upto == IF FirstNonPass <= Len(results) THEN FirstNonPass
                  ELSE Len(results)
          due == {i \in 1..upto : test_type(tests, steps[i]) # None}
      IN  /\ {called[k] : k \in 1..Len(called)} = due
          /\ \A k \in 1..Len(called) : \A l \in (k + 1)..Len(called) :
               called[k] < called[l]

C2_Witness ==
    /\ LoopOver
    /\ Len(results) >= 3
    /\ results[1] = "Pass" /\ results[2] = "Fail" /\ results[3] = "Skipped"
    /\ called = <<1, 2>>

(* C3: in a completed run, the calls other than visit_scenario_skipped are *)
(* visit_start; per feature visit_feature, per scenario visit_scenario,    *)
(* per step visit_step and then visit_step_result for that step,           *)
(* visit_scenario_end; visit_feature_end; and visit_finish last, once. *)
RECURSIVE StepPairs(_, _, _)
StepPairs(f, s, n) ==
    IF n = 0 THEN <<>>
    ELSE StepPairs(f, s, n - 1)
           \o <<Ev("visit_step", f, s, n), Ev("visit_step_result", f, s, n)>>

RECURSIVE ScenarioBlocks(_, _, _)
ScenarioBlocks(sh, f, s) ==
    IF s = 0 THEN <<>>
    ELSE ScenarioBlocks(sh, f, s - 1)
           \o <<Ev("visit_scenario", f, s, 0)>>
           \o StepPairs(f, s, sh[f][s])
           \o <<Ev("visit_scenario_end", f, s, 0)>>

RECURSIVE FeatureBlocks(_, _)
FeatureBlocks(sh, f) ==
    IF f = 0 THEN <<>>
    ELSE FeatureBlocks(sh, f - 1)
           \o <<Ev("visit_feature", f, 0, 0)>>
           \o ScenarioBlocks(sh, f, Len(sh[f]))
           \o <<Ev("visit_feature_end", f, 0, 0)>>

C3_CallOrder ==
    pc = "done" =>
      SelectSeq(calls, LAMBDA e : e.ev # "visit_scenario_skipped")
        = <<Ev("visit_start", 0, 0, 0)>>
            \o FeatureBlocks(shape, Len(shape))
            \o <<Ev("visit_finish", 0, 0, 0)>>

C3_Witness ==
    /\ pc = "done"
    /\ Len(shape) = 2
    /\ Len(shape[1]) = 1 /\ shape[1][1] = 1
    /\ Len(shape[2]) = 1 /\ shape[2][1] = 1
    /\ CountEv(calls, "visit_scenario_skipped") = 1

(* C4: visit_scenario_skipped is called once for a scenario when some step *)
(* of it has a result other than Pass, and not at all when every step      *)
(* passes; never twice. *)
C4_SkippedOnce ==
    pc = "steps" =>
      CountEv(ScenarioCallsMade, "visit_scenario_skipped")
        = IF \E i \in 1..Len(results) : results[i] # "Pass" THEN 1 ELSE 0

C4_Witness ==
    /\ LoopOver
    /\ Len(results) >= 3
    /\ results[1] = "Fail"
    /\ results[2] = "Unimplemented"
    /\ results[3] = "Unimplemented"
    /\ CountEv(ScenarioCallsMade, "visit_scenario_skipped") = 1

(* C5: in a scenario in which skipping began, no visit_step or             *)
(* visit_step_result of that scenario follows its visit_scenario_skipped. *)
C5_SkippedAfterAllSteps ==
    \A i \in 1..Len(calls) : \A j \in (i + 1)..Len(calls) :
      ~ /\ calls[i].ev = "visit_scenario_skipped"
        /\ calls[j].ev \in {"visit_step", "visit_step_result"}
        /\ calls[j].f = calls[i].f
        /\ calls[j].s = calls[i].s

(* The registrations of an exact text, and of a matching pattern, for the  *)
(* kind and text of a step, by their place in the registration order. *)
ExactRegs(step) ==
    {i \in 1..Len(regs) :
       /\ ~regs[i].regex
       /\ regs[i].ty = step.ty
       /\ regs[i].name = step.value}

MatchingRegs(step) ==
    {i \in 1..Len(regs) :
       /\ regs[i].regex
       /\ regs[i].ty = step.ty
       /\ is_match(regs[i].name, step.value)}

(* C6: when an exact-text definition of the step's text is registered for  *)
(* its kind, test_type resolves to an exact definition of that text        *)
(* (TestCaseType::Normal), whatever patterns are registered for the kind. *)
C6_ExactWins ==
    (query # None /\ ExactRegs(query[1]) # {}) =>
      /\ resolved # None
      /\ resolved[1].variant = "Normal"
      /\ resolved[1].test \in ExactRegs(query[1])

C6_Witness ==
    /\ query # None
    /\ ExactRegs(query[1]) # {}
    /\ MatchingRegs(query[1]) # {}
    /\ resolved # None
    /\ resolved[1].variant = "Normal"

(* C7: a text with no exact definition that two or more patterns of its    *)
(* kind match resolves to the one of them that was registered first.       *)
(* (Stated for patterns that differ in their source text, each registered  *)
(* once.) *)
C7_FirstRegisteredPattern ==
    (/\ query # None
     /\ ExactRegs(query[1]) = {}
     /\ Cardinality(MatchingRegs(query[1])) >= 2
     /\ \A i, j \in MatchingRegs(query[1]) :
          i # j => regs[i].name # regs[j].name
     /\ resolved # None
     /\ resolved[1].variant = "Regex") =>
      \A i \in MatchingRegs(query[1]) : resolved[1].test <= i

(* C8: a handler that panics with a string payload equal to                *)
(* "not yet implemented" yields Unimplemented, whatever it printed; every  *)
(* other panic yields Fail. *)
C8_UnimplementedMarker ==
    (/\ last_result # None
     /\ last_result[1].beh # None
     /\ last_result[1].beh[1].panics) =>
      LET payload == last_result[1].beh[1].payload
          marker == /\ payload.ty \in {"String", "&str"}
                    /\ payload.s = "not yet implemented"
      IN  last_result[1].result.tag =
            IF marker THEN "Unimplemented" ELSE "Fail"

C8_Witness ==
    /\ last_result # None
    /\ last_result[1].beh # None
    /\ last_result[1].beh[1].panics
    /\ last_result[1].beh[1].payload
         = [ty |-> "String", s |-> "not yet implemented"]
    /\ Len(last_result[1].beh[1].stdout) > 0
    /\ last_result[1].result.tag = "Unimplemented"

(* C9: the steps of a scenario are handed to visit_step, and their         *)
(* handlers called, in the order background steps, then the scenario's own *)
(* steps; for every scenario of the feature. *)
C9_BackgroundFirst ==
    pc = "steps" =>
      LET bg == IF feature.background = None THEN <<>>
                ELSE feature.background[1].steps
          all == bg \o scenario.steps
      IN  /\ Len(visited) = idx - 1
          /\ Len(visited) <= Len(all)
          /\ \A i \in 1..Len(visited) : visited[i] = all[i]
          /\ LoopOver => Len(visited) = Len(all)
          /\ \A k \in 1..Len(called) : \A l \in (k + 1)..Len(called) :
               called[k] < called[l]

C9_Witness ==
    /\ LoopOver
    /\ sidx = 2
    /\ feature.background # None
    /\ Len(feature.background[1].steps) = 1
    /\ Len(scenario.steps) = 1
    /\ scenario.steps[1] # feature.background[1].steps[1]
    /\ called = <<1, 2>>

(* C10: at visit_finish, step_count - skipped_count - fail_count does not  *)
(* go below zero and is the number of results that were Pass. *)
C10_PassedCount ==
    pc = "done" => output.passed_count = <<Some(pass_results)>>

C10_Witness ==
    /\ pc = "done"
    /\ output.passed_count = <<Some(1)>>
    /\ output.fail_count = 1
    /\ output.skipped_count = 1

(* The registrations of the step groups merged so far, and among them the  *)
(* exact ones of the kind and text of a step. *)
MergedRegs == {i \in 1..Len(regs) : regs[i].group <= merged}

MergedExact(step) ==
    {i \in MergedRegs : /\ ~regs[i].regex
                        /\ regs[i].ty = step.ty
                        /\ regs[i].name = step.value}

(* C11: when the merged step groups hold exact definitions of the kind and *)
(* text of a step, the merged registry holds one definition for them, the  *)
(* one registered last in the last such group, and test_type returns it,   *)
(* whatever the iteration order of the maps, without a panic. *)
C11_LaterGroupWins ==
    (pc = "main" /\ query # None /\ MergedExact(query[1]) # {}) =>
        LET step == query[1]
            last == CHOOSE i \in MergedExact(step) :
                      \A j \in MergedExact(step) : j <= i
            bag == test_bag_for(combined_steps, step.ty)
        IN  /\ step.value \in DOMAIN bag
            /\ bag[step.value] = last
            /\ resolved = Some([variant |-> "Normal", test |-> last,
                                matches |-> <<>>])

(* Two merged groups define the text of the step resolved, for its kind.   *)
C11_Witness ==
    /\ pc = "main"
    /\ query # None
    /\ resolved # None
    /\ \E i, j \in MergedExact(query[1]) : regs[i].group < regs[j].group

(* C12: when read_dir on the feature path fails, run panics with no call   *)
(* made on the OutputVisitor, visit_start included. *)
C12_NoEventBeforeSetupError ==
    raised = Some("feature path to exist") => calls = <<>>

(* C13: for a step with no exact definition that a registered pattern of   *)
(* its kind matches, test_type returns the Regex variant of a matching     *)
(* pattern, and the matches are the whole match followed by one string per *)
(* group of that pattern; it does not panic. *)
C13_CapturesPerGroup ==
    (pc = "register" /\ query # None) =>
        LET step == query[1]
            regex_bag == regex_bag_for(tests, step.ty)
            hits == {i \in 1..Len(regex_bag) :
                       is_match(regex_bag[i].key, step.value)}
        IN  (step.value \notin DOMAIN test_bag_for(tests, step.ty)
             /\ hits # {}) =>
               /\ resolved # None
               /\ resolved[1].variant = "Regex"
               /\ \E i \in hits :
                    /\ resolved[1].test = regex_bag[i].value
                    /\ Len(resolved[1].matches)
                         = Len(captures(regex_bag[i].key, step.value))
                    /\ resolved[1].matches[1] = step.value

(* C15: run_scenario starts its loop with the World that T::default()      *)
(* returned, the first handler called in a scenario is handed that World,  *)
(* every handler called is handed the World as the handlers called before  *)
(* it in the scenario left it, and a turn that calls no handler leaves the *)
(* World alone. *)
C15_FreshWorld ==
    /\ [](( /\ pc = "steps"
            /\ Len(called) = 1
            /\ last_result # None
            /\ last_result[1].beh # None )
             => last_result[1].world = Some(World_default))
    /\ [][ /\ (pc = "scenarios" /\ pc' = "steps")
              => world' = Some(World_default)
           /\ (pc = "steps" /\ pc' = "steps")
              => IF Len(called') > Len(called)
                 THEN last_result'[1].world = world
                 ELSE world' = world ]_vars

(* In a later scenario of a feature, the second handler called was handed  *)
(* the World the first one had written to. *)
C15_Witness ==
    /\ pc = "steps"
    /\ sidx >= 2
    /\ Len(called) = 2
    /\ last_result # None
    /\ last_result[1].beh # None
    /\ last_result[1].world = Some([thing |-> TRUE])

(* C16: when T::default() panics, run is left by that panic, and the last  *)
(* call made on the OutputVisitor is the visit_scenario of the scenario    *)
(* whose World was being made: no step, scenario or feature follows. *)
C16_DefaultPanicEndsRun ==
    raised = Some("T::default()") =>
        /\ pc = "panicked"
        /\ calls # <<>>
        /\ calls[Len(calls)] = Ev("visit_scenario", Len(shape), sidx, 0)

(* T::default() panicked for the second scenario of a feature. *)
C16_Witness ==
    /\ raised = Some("T::default()")
    /\ pc = "panicked"
    /\ sidx = 2

(* C17: a turn of the loop that calls a handler leaves the print sink, the *)
(* panic-output sink and the panic hook of the process as they were before *)
(* the call, whether the handler returned or panicked. *)
C17_CaptureRestored ==
    [][(pc = "steps" /\ Len(called') > Len(called)) => io' = io]_vars

(* C18: a Fail result comes from a handler that panicked; its message is   *)
(* what the handler printed when that is not empty and "Panicked with: "   *)
(* followed by the text of the payload (nothing for a payload that is no   *)
(* string) otherwise, and its location is the one the last_panic cell      *)
(* holds after the call, or "unknown" when the cell holds none. *)
C18_FailMessageAndOrigin ==
    (last_result # None /\ last_result[1].result.tag = "Fail") =>
        /\ last_result[1].beh # None
        /\ LET b == last_result[1].beh[1]
               r == last_result[1].result
               text == IF b.payload.ty \in {"String", "&str"}
                       THEN b.payload.s ELSE ""
           IN  /\ b.panics
               /\ r.msg = IF b.stdout # <<>> THEN b.stdout
                          ELSE <<"Panicked with: ", text>>
               /\ r.loc = IF last_panic # None THEN last_panic[1]
                          ELSE "unknown"

(* A handler printed, then panicked with a string and without a location. *)
C18_Witness ==
    /\ last_result # None
    /\ last_result[1].result.tag = "Fail"
    /\ last_result[1].beh # None
    /\ last_result[1].beh[1].stdout # <<>>
    /\ last_result[1].beh[1].payload.ty = "String"
    /\ last_result[1].beh[1].hook
    /\ last_result[1].beh[1].location = None
    /\ last_result[1].result.msg = last_result[1].beh[1].stdout
    /\ last_result[1].result.loc = "unknown"

(* C19: the location of a Fail result is the location of the panic that   *)
(* ended that call of the handler, or "unknown" when that panic recorded   *)
(* none, whatever an earlier panic had left in the last_panic cell. *)
C19_OriginOfThisInvocation ==
    (last_result # None /\ last_result[1].result.tag = "Fail") =>
        /\ last_result[1].beh # None
        /\ LET here == last_result[1].beh[1].location
               loc == last_result[1].result.loc
           IN  loc = IF here # None THEN here[1] ELSE "unknown"

(* C20: a turn of the loop whose result is Fail adds one to                *)
(* scenario_fail_count and leaves scenario_skipped_count as it was: only a *)
(* scenario that began to skip without a Fail is counted as skipped. *)
C20_SkippedOnlyWithoutFail ==
    [][(pc = "steps" /\ Len(results') > Len(results)
        /\ results'[Len(results')] = "Fail")
         => /\ output'.scenario_fail_count = output.scenario_fail_count + 1
            /\ output'.scenario_skipped_count = output.scenario_skipped_count
      ]_vars

(* C21: scenario_fail_count goes up by one in the turn that reports the    *)
(* first Fail of a scenario and in no other step of the program, so by one *)
(* for a scenario with a Fail and by nothing for one without, however many *)
(* steps it has; a turn whose result is not Fail leaves fail_count alone;   *)
(* and scenario_fail_count and scenario_skipped_count never exceed         *)
(* scenario_count. *)
C21_FailedOncePerScenario ==
    /\ [](/\ output.scenario_fail_count <= output.scenario_count
          /\ output.scenario_skipped_count <= output.scenario_count)
    /\ [][ /\ output'.scenario_fail_count =
                output.scenario_fail_count +
                  (IF /\ pc = "steps"
                      /\ \E i \in 1..Len(results') : results'[i] = "Fail"
                      /\ \A i \in 1..Len(results) : results[i] # "Fail"
                   THEN 1 ELSE 0)
           /\ (pc = "steps" /\ Len(results') > Len(results)
               /\ results'[Len(results')] # "Fail")
                => output'.fail_count = output.fail_count ]_vars

(* The loop of the second scenario is over: its first step failed, two     *)
(* steps followed, and it is the only scenario of the run with a Fail. *)
C21_Witness ==
    /\ LoopOver
    /\ output.scenario_count = 2
    /\ Len(results) >= 3
    /\ results[1] = "Fail"
    /\ output.scenario_fail_count = 1

(* test_type finds a definition for the step. *)
Resolves(step) == test_type(tests, step) # None

(* C22, as stated: in every scenario the first step that test_type finds a *)
(* definition for has its handler called and is not reported Skipped. *)
C22_FirstResolvedInvoked ==
    LoopOver =>
        \A i \in 1..Len(steps) :
            (Resolves(steps[i]) /\ \A j \in 1..(i - 1) : ~Resolves(steps[j]))
              => /\ \E k \in 1..Len(called) : called[k] = i
                 /\ results[i] # "Skipped"

(* C22, amended: is_skipping is clear when the loop of a scenario starts;  *)
(* the first step of a scenario, when test_type finds a definition for it, *)
(* has its handler called, whatever the scenarios before it reported; and  *)
(* a turn that calls a handler leaves the run going, with no panic raised, *)
(* whatever the handler did. *)
C22_ScenarioIsolation ==
    /\ []((pc = "steps" /\ idx = 1) => ~is_skipping)
    /\ []((pc = "steps" /\ idx > 1 /\ Resolves(steps[1]))
            => /\ called # <<>>
               /\ called[1] = 1
               /\ results[1] # "Skipped")
    /\ [][Len(called') > Len(called)
            => (pc' = "steps" /\ raised' = None)]_vars

(* The first step of a scenario was called after an earlier scenario of    *)
(* the run had failed. *)
C22_Witness ==
    /\ pc = "steps"
    /\ output.scenario_count >= 2
    /\ output.scenario_fail_count >= 1
    /\ Len(results) = 1
    /\ results[1] = "Pass"
    /\ called = <<1>>

(* The pattern registrations of the merged step groups, of the kind of a   *)
(* step, whose pattern matches its text. *)
MergedMatching(step) ==
    {i \in MergedRegs : /\ regs[i].regex
                        /\ regs[i].ty = step.ty
                        /\ is_match(regs[i].name, step.value)}

(* C23: when the patterns of the merged step groups that match a step with *)
(* no exact definition all have one source text, come from more than one   *)
(* group and every group of the pattern takes part in the match, the       *)
(* merged registry holds an entry for each of these registrations and      *)
(* test_type returns the handler of the first of them. *)
C23_EarlierPatternKept ==
    (pc = "main" /\ query # None) =>
        LET step == query[1]
            hits == MergedMatching(step)
            regex_bag == regex_bag_for(combined_steps, step.ty)
        IN  ( /\ MergedExact(step) = {}
              /\ \E i, j \in hits : regs[i].group < regs[j].group
              /\ \A i, j \in hits : regs[i].name = regs[j].name
              /\ \A i \in hits :
                   \A g \in 1..Len(captures(regs[i].name, step.value)) :
                      captures(regs[i].name, step.value)[g] # None )
            => /\ Cardinality({k \in 1..Len(regex_bag) :
                                 is_match(regex_bag[k].key, step.value)})
                    = Cardinality(hits)
               /\ resolved # None
               /\ resolved[1].variant = "Regex"
               /\ resolved[1].test =
                    CHOOSE i \in hits : \A j \in hits : i <= j
====
